---- MODULE Spec2Model ----
(***************************************************************************)
(* Model of command-capture.py (MCPCommandCapture: supervisor, three       *)
(* stream relays, log sink, signal handler) and of json-log-formatter.py   *)
(* (format_json_logs).                                                     *)
(*                                                                         *)
(* The capture program runs on one asyncio event loop: the code between    *)
(* two awaits of a coroutine is one atomic action here.  The only other    *)
(* thread is the default executor's worker running sys.stdin.buffer        *)
(* .readline for the stdin relay.  The child process, the parent's stdin   *)
(* and signal delivery are the environment.                                *)
(***************************************************************************)
EXTENDS Integers, Sequences, FiniteSets, TLC

\* ---------------------------------------------------------------- bounds
\* lines entering the session at most: those the parent's stdin delivers
\* and those the child writes to its stdout and its stderr, together
MaxLines == 3

\* ------------------------------------------------------------- constants
None == -1                       \* Python's None for the integer fields
Relays == {"in", "out", "err"}   \* handle_stdin, handle_stdout, handle_stderr
ChildStatuses == {0, 3}          \* exit statuses the child may choose
\* A line is a sequence of bytes ending in NL.  "xFF" is a byte that is not
\* valid UTF-8.  The k-th line of a stream is LineAt(k): neighbours differ,
\* so that a reordering, a duplicate or a loss shows in the sequences.
Lines == << <<"a", "NL">>, <<"xFF", " ", "NL">> >>
LineAt(k) == Lines[((k - 1) % Len(Lines)) + 1]
EOF == <<>>                      \* readline() returning b''

VARIABLES
  mainPc,       \* position of main()/start()
  outcome,      \* how main() ended: "none","returned","openfail","spawnfail",
                \* "closefail","signal"
  pendingCode,  \* exit code the interpreter will exit with once it can
  exitCode,     \* exit code of the capture process (None while it runs)
  retval,       \* value returned by start() (None if it never returned)
  loggerSet,    \* setup_logger() has run (level INFO, file handler)
  diag,         \* the diagnostic log, as the set of the kinds of its entries
  logState,     \* self.log_file: "unopened", "open", "closed"
  logCloses,    \* number of self.log_file.close() calls
  transcript,   \* records of the I/O log file
  spawnAttempts,\* calls of create_subprocess_exec
  childState,   \* "none", "running", "exited"
  childStatus,  \* the status the child exited with
  returncode,   \* self.process.returncode as the event loop knows it
  stdinCloses,  \* number of self.process.stdin.close() calls
  stdinLost,    \* the transport of the child's stdin lost its connection
  pipe,         \* pipe[r], r in {out,err}: lines written by the child, unread
  consumed,     \* lines the executor thread has consumed from the parent's stdin
  rd,           \* executor job of the stdin relay: "none","blocked","done"
  rdLine,       \* result of the finished executor job
  rpc,          \* rpc[r]: "none","created","read","drain","done"
  cancelReq,    \* cancelReq[r]: task.cancel() was called on a live task
  got,          \* got[r]: lines relay r obtained from its source
  fwd,          \* fwd[r]: lines relay r forwarded to its destination
  signalled,    \* a SIGINT or SIGTERM was delivered
  logBuf,       \* records a failed flush left in self.log_file's buffer
  stdDirty,     \* a failed flush left bytes in sys.stdout's or sys.stderr's buffer
  fmtIn,        \* reformatter: lines of the input file
  fmtOut,       \* reformatter: lines of the output file
  fmtPc         \* reformatter: "off", "edit", "once", "twice"

capVars == << mainPc, outcome, pendingCode, exitCode, retval, loggerSet, diag,
              logState, logCloses, transcript, spawnAttempts, childState,
              childStatus, returncode, stdinCloses, stdinLost, pipe,
              consumed, rd, rdLine, rpc, cancelReq, got, fwd, signalled,
              logBuf, stdDirty >>
fmtVars == << fmtIn, fmtOut, fmtPc >>
vars == << capVars, logBuf,
                  stdDirty, fmtVars >>

\* ------------------------------------------------------- pure functions
\* bytes.decode('utf-8', errors='replace'): an invalid byte becomes U+FFFD.
DecodeByte(b) == IF b = "xFF" THEN "uFFFD" ELSE b
Decode(line) == [i \in 1..Len(line) |-> DecodeByte(line[i])]

\* str.rstrip(): drop trailing whitespace.
IsSpace(c) == c \in {" ", "NL"}
RECURSIVE rstrip(_)
rstrip(s) == IF s # <<>> /\ IsSpace(s[Len(s)])
             THEN rstrip(SubSeq(s, 1, Len(s) - 1))
             ELSE s

\* mutant: handle_stderr copied from handle_stdout with its tag left as is
Tag_copied(r) == IF r = "in" THEN "IN" ELSE "OUT"

Tag(r) == CASE r = "in" -> "IN" [] r = "out" -> "OUT" [] r = "err" -> "ERR"

\* log_entry = f"[{timestamp}] TAG: {line.decode(...).rstrip()}\n"
\* (the timestamp is the wall clock's and is not modelled)
LogEntry(r, line) == [tag |-> Tag(r), text |-> rstrip(Decode(line))]

\* mutant: the record is put in front of the file's records
LogAppend_front(log, entry) == <<entry>> \o log

\* mutant: the record is written over the last record of the file
LogAppend_over(log, entry) ==
  IF log = <<>> THEN <<entry>> ELSE [log EXCEPT ![Len(log)] = entry]

\* self.log_file.write(log_entry); self.log_file.flush()
LogAppend(log, entry) == Append(log, entry)

\* sys.exit(code) / interpreter exit status for an int
ExitStatus(code) == code % 256

\* exit status of an interpreter that could not flush its standard streams
FlushFailStatus == 120

\* ------------------------------------------------------------- helpers
Live(p) == p \in {"created", "read", "drain"}

\* task.cancel() on each of the three tasks (a finished task ignores it)
CancelAll(rp) == [r \in Relays |-> cancelReq[r] \/ Live(rp[r])]

\* logger.info / logger.error of the "command-capture" logger: dropped while
\* the logger has no level (root's WARNING applies) and no handler.
DiagInfo(d, msg) == IF loggerSet THEN d \cup {msg} ELSE d

\* if not self.process.stdin.is_closing(): self.process.stdin.close()
CloseStdin(n) == IF stdinLost \/ n > 0 THEN n ELSE n + 1

\* the destination write of relay r
Forward(r, f, line) ==
  IF r = "in" /\ (childState # "running" \/ stdinLost \/ stdinCloses > 0)
  THEN f
  ELSE [f EXCEPT ![r] = Append(@, line)]

Produced(r) == got[r] \o pipe[r]
\* lines that have entered the session so far
SessionLines == Len(consumed) + Len(Produced("out")) + Len(Produced("err"))

\* ------------------------------------------------------------ Init
CapInit ==
  /\ mainPc = "setup" /\ outcome = "none" /\ pendingCode = None
  /\ exitCode = None /\ retval = None /\ loggerSet = FALSE /\ diag = {}
  /\ logState = "unopened" /\ logCloses = 0 /\ transcript = <<>>
  /\ spawnAttempts = 0 /\ childState = "none" /\ childStatus = None
  /\ returncode = None /\ stdinCloses = 0 /\ stdinLost = FALSE
  /\ pipe = [r \in {"out", "err"} |-> <<>>]
  /\ consumed = <<>>
  /\ rd = "none" /\ rdLine = EOF
  /\ rpc = [r \in Relays |-> "none"]
  /\ cancelReq = [r \in Relays |-> FALSE]
  /\ got = [r \in Relays |-> <<>>]
  /\ fwd = [r \in Relays |-> <<>>]
  /\ signalled = FALSE
  /\ logBuf = <<>> /\ stdDirty = FALSE

FmtIdle == fmtIn = <<>> /\ fmtOut = <<>> /\ fmtPc = "off"

Init == CapInit /\ FmtIdle

\* ------------------------------------------------- main() and start()
\* capture = MCPCommandCapture(...): __init__ runs setup_logger()
Construct ==
  /\ mainPc = "setup"
  /\ mainPc' = "ready" /\ loggerSet' = TRUE
  /\ UNCHANGED << outcome, pendingCode, exitCode, retval, diag, logState,
                  logCloses, transcript, spawnAttempts, childState,
                  childStatus, returncode, stdinCloses, stdinLost, pipe,
                  consumed, rd, rdLine, rpc, cancelReq, got,
                  fwd, signalled, logBuf,
                  stdDirty, fmtVars >>

\* an exception leaves start() and main(): asyncio.run() cleans up and the
\* interpreter exits with status 1
Raise(how) ==
  /\ mainPc' = "cleanup" /\ outcome' = how /\ pendingCode' = 1

\* mutant: the error of open() is swallowed and start() goes on without a
\* log file
OpenLog_swallowed ==
  /\ mainPc = "ready"
  /\ mainPc' = "opened"
  /\ \/ logState' = "open"
     \/ UNCHANGED logState
  /\ UNCHANGED << outcome, pendingCode, exitCode, retval, loggerSet, diag,
                  logCloses, transcript, spawnAttempts, childState,
                  childStatus, returncode, stdinCloses, stdinLost, pipe,
                  consumed, rd, rdLine, rpc, cancelReq, got, fwd, signalled,
                  logBuf, stdDirty, fmtVars >>

\* self.log_file = open(self.log_path, "wb")
OpenLog ==
  /\ mainPc = "ready"
  /\ \/ /\ mainPc' = "opened" /\ logState' = "open"
        /\ UNCHANGED << outcome, pendingCode >>
     \/ /\ Raise("openfail") /\ UNCHANGED logState
  /\ UNCHANGED << exitCode, retval, loggerSet, diag, logCloses, transcript,
                  spawnAttempts, childState, childStatus, returncode,
                  stdinCloses, stdinLost, pipe, consumed, rd,
                  rdLine, rpc, cancelReq, got, fwd, signalled, logBuf,
                  stdDirty, fmtVars >>

\* await asyncio.create_subprocess_exec(...): the fork/exec
SpawnOk ==
  /\ mainPc = "opened"
  /\ mainPc' = "spawning" /\ childState' = "running"
  /\ spawnAttempts' = spawnAttempts + 1
  /\ UNCHANGED << outcome, pendingCode, exitCode, retval, loggerSet, diag,
                  logState, logCloses, transcript, childStatus, returncode,
                  stdinCloses, stdinLost, pipe, consumed, rd,
                  rdLine, rpc, cancelReq, got, fwd, signalled, logBuf,
                  stdDirty, fmtVars >>

\* mutant: the exception of create_subprocess_exec is swallowed and start()
\* goes on to launch the relays
SpawnFail_swallowed ==
  /\ mainPc = "opened"
  /\ mainPc' = "waiting"
  /\ rpc' = [r \in Relays |-> "created"]
  /\ spawnAttempts' = spawnAttempts + 1
  /\ UNCHANGED << outcome, pendingCode, exitCode, retval, loggerSet, diag,
                  logState, logCloses, transcript, childState, childStatus,
                  returncode, stdinCloses, stdinLost, pipe, consumed, rd,
                  rdLine, cancelReq, got, fwd, signalled, logBuf,
                  stdDirty, fmtVars >>

\* create_subprocess_exec raises (FileNotFoundError, PermissionError)
SpawnFail ==
  /\ mainPc = "opened"
  /\ Raise("spawnfail")
  /\ spawnAttempts' = spawnAttempts + 1
  /\ UNCHANGED << exitCode, retval, loggerSet, diag, logState, logCloses,
                  transcript, childState, childStatus, returncode,
                  stdinCloses, stdinLost, pipe, consumed, rd,
                  rdLine, rpc, cancelReq, got, fwd, signalled, logBuf,
                  stdDirty, fmtVars >>

\* mutant: the log file is closed and the status returned with the relays
\* left running
Teardown_nocancel(rp) ==
  /\ cancelReq' = cancelReq
  /\ logState' = "closed" /\ logCloses' = logCloses + 1
  /\ \/ /\ transcript' = transcript \o logBuf /\ logBuf' = <<>>
        /\ retval' = returncode
        /\ mainPc' = "cleanup" /\ outcome' = "returned"
        /\ pendingCode' = ExitStatus(returncode)
     \/ /\ logBuf # <<>>
        /\ Raise("closefail")
        /\ UNCHANGED << transcript, logBuf, retval >>

\* lines 71-80: cancel the three tasks, close the log file, return.
\* close() flushes the file's buffer first: it writes the records a failed
\* flush left there, or raises the I/O error again (the file is closed all
\* the same) and start() is left with the exception.
Teardown(rp) ==
  /\ cancelReq' = CancelAll(rp)
  /\ logState' = "closed" /\ logCloses' = logCloses + 1
  /\ \/ /\ transcript' = transcript \o logBuf /\ logBuf' = <<>>
        /\ retval' = returncode
        /\ mainPc' = "cleanup" /\ outcome' = "returned"
        /\ pendingCode' = ExitStatus(returncode)
     \/ /\ logBuf # <<>>
        /\ Raise("closefail")
        /\ UNCHANGED << transcript, logBuf, retval >>

\* create_subprocess_exec returns; lines 59-69 run without an await:
\* logger.info, the three create_task calls, and process.wait(), which
\* returns at once when the return code is already known.
Launch ==
  /\ mainPc = "spawning"
  /\ diag' = DiagInfo(diag, "started")
  /\ rpc' = [r \in Relays |-> "created"]
  /\ IF returncode # None
     THEN Teardown(rpc')
     ELSE /\ mainPc' = "waiting"
          /\ UNCHANGED << cancelReq, logState, logCloses, retval, outcome,
                          pendingCode, transcript, logBuf >>
  /\ UNCHANGED << exitCode, loggerSet, spawnAttempts, childState,
                  childStatus, returncode, stdinCloses, stdinLost, pipe,
                  consumed, rd, rdLine, got, fwd, signalled,
                  stdDirty, fmtVars >>

\* await self.process.wait() resumes, then lines 71-80
WaitReturn ==
  /\ mainPc = "waiting" /\ returncode # None
  /\ Teardown(rpc)
  /\ UNCHANGED << exitCode, loggerSet, diag, spawnAttempts,
                  childState, childStatus, returncode, stdinCloses, stdinLost,
                  pipe, consumed, rd, rdLine, rpc, got, fwd,
                  signalled, stdDirty, fmtVars >>

\* asyncio.run() has cancelled and awaited the remaining tasks and joined the
\* default executor's thread; sys.exit(exit_code) or the pending exception
\* ends the process.  The interpreter flushes sys.stdout and sys.stderr on
\* its way out: when that flush fails (the bytes of a failed forward are
\* still in the buffer and the error persists) the exit status is
\* FlushFailStatus whatever the pending one was.
Finish ==
  /\ mainPc = "cleanup"
  /\ \A r \in Relays : ~Live(rpc[r])
  /\ rd # "blocked"
  /\ mainPc' = "exited"
  /\ \/ exitCode' = pendingCode
     \/ stdDirty /\ exitCode' = FlushFailStatus
  /\ UNCHANGED << outcome, pendingCode, retval, loggerSet, diag, logState,
                  logCloses, transcript, spawnAttempts, childState,
                  childStatus, returncode, stdinCloses, stdinLost, pipe,
                  consumed, rd, rdLine, rpc, cancelReq, got,
                  fwd, signalled, logBuf,
                  stdDirty, fmtVars >>

\* ------------------------------------------------------- signal_handler
\* logger.info("Received signal ..."); sys.exit(1).  SystemExit leaves the
\* event loop; asyncio.run() cancels every task that is not done; start()
\* is abandoned where it stood.
SigExit(rp) ==
  /\ signalled' = TRUE
  /\ diag' = DiagInfo(diag, "signal")
  /\ mainPc' = "cleanup" /\ outcome' = "signal" /\ pendingCode' = 1
  /\ cancelReq' = CancelAll(rp)

\* the signal arrives while the event loop is between two callbacks
Signal ==
  /\ mainPc # "exited"
  /\ SigExit(rpc)
  /\ UNCHANGED << exitCode, retval, loggerSet, logState, logCloses,
                  transcript, spawnAttempts, childState, childStatus,
                  returncode, stdinCloses, stdinLost, pipe, consumed, rd,
                  rdLine, rpc, got, fwd, logBuf,
                  stdDirty, fmtVars >>

\* ---------------------------------------------------------- the relays
\* first step of a task that was not cancelled: run to the first await
\* (handle_stdin submits sys.stdin.buffer.readline to the executor)
RelayStart(r) ==
  /\ rpc[r] = "created" /\ ~cancelReq[r]
  /\ rpc' = [rpc EXCEPT ![r] = "read"]
  /\ rd' = IF r = "in" THEN "blocked" ELSE rd
  /\ UNCHANGED << mainPc, outcome, pendingCode, exitCode, retval,
                  loggerSet, diag, logState, logCloses, transcript,
                  spawnAttempts, childState, childStatus, returncode,
                  stdinCloses, stdinLost, pipe, consumed, rdLine,
                  cancelReq, got, fwd, signalled, logBuf,
                  stdDirty, fmtVars >>

\* mutant: a cancelled handle_stdin returns without closing the child's stdin
RelayCancelled_noclose(r) ==
  /\ Live(rpc[r]) /\ cancelReq[r]
  /\ rpc' = [rpc EXCEPT ![r] = "done"]
  /\ stdinCloses' = stdinCloses
  /\ UNCHANGED << mainPc, outcome, pendingCode, exitCode, retval,
                  loggerSet, diag, logState, logCloses, transcript,
                  spawnAttempts, childState, childStatus, returncode,
                  stdinLost, pipe, consumed, rd, rdLine, cancelReq, got,
                  fwd, signalled, logBuf,
                  stdDirty, fmtVars >>

\* CancelledError is thrown into the task at its next step.  A task that
\* never started ends without running any of its body; a started one
\* breaks out of the loop (handle_stdin then closes the child's stdin).
RelayCancelled(r) ==
  /\ Live(rpc[r]) /\ cancelReq[r]
  /\ rpc' = [rpc EXCEPT ![r] = "done"]
  /\ stdinCloses' = IF r = "in" /\ rpc[r] # "created"
                    THEN CloseStdin(stdinCloses) ELSE stdinCloses
  /\ UNCHANGED << mainPc, outcome, pendingCode, exitCode, retval,
                  loggerSet, diag, logState, logCloses, transcript,
                  spawnAttempts, childState, childStatus, returncode,
                  stdinLost, pipe, consumed, rd, rdLine, cancelReq, got,
                  fwd, signalled, logBuf,
                  stdDirty, fmtVars >>

\* lines 94-102 / 123-131 / 148-156 for one line, with the ways they end:
\*   "ok"        record appended, line forwarded
\*   "logfail"   log_file.flush raises        -> logger.error, break
\*               (the record stays in the file object's buffer; a write
\*               to a closed file raises before anything is buffered)
\*   "fwdfail"   the destination write or flush raises
\*                                            -> logger.error, break
\*   "interrupt" the signal handler runs between the append and the forward
\* (StreamWriter.write of handle_stdin does not raise: its errors surface
\* in drain())
Outcomes == {"ok", "logfail", "fwdfail", "interrupt"}

\* mutant: the line is forwarded first and recorded afterwards
HandleLine_fwdfirst(r, line, oc) ==
  /\ oc # "logfail" => logState = "open"
  /\ oc = "fwdfail" => r # "in"
  /\ got' = [got EXCEPT ![r] = Append(@, line)]
  /\ transcript' = IF oc = "logfail" THEN transcript
                   ELSE LogAppend(transcript \o logBuf, LogEntry(r, line))
  /\ logBuf' = IF oc # "logfail" THEN <<>>
               ELSE IF logState = "open" THEN Append(logBuf, LogEntry(r, line))
               ELSE logBuf
  /\ stdDirty' = (stdDirty \/ oc = "fwdfail")
  /\ fwd' = IF oc \in {"ok", "logfail"} THEN Forward(r, fwd, line) ELSE fwd
  /\ rpc' = [rpc EXCEPT ![r] = IF oc = "ok"
                                THEN (IF r = "in" THEN "drain" ELSE "read")
                                ELSE "done"]
  /\ stdinLost' = (stdinLost \/ (r = "in" /\ oc = "ok" /\ childState # "running"))
  /\ stdinCloses' = IF r = "in" /\ oc = "logfail"
                    THEN CloseStdin(stdinCloses) ELSE stdinCloses
  /\ IF oc = "interrupt"
     THEN SigExit(rpc')
     ELSE /\ diag' = IF oc = "ok" THEN diag ELSE DiagInfo(diag, "error")
          /\ UNCHANGED << signalled, mainPc, outcome, pendingCode, cancelReq >>

HandleLine(r, line, oc) ==
  /\ oc # "logfail" => logState = "open"
  /\ oc = "fwdfail" => r # "in"
  /\ got' = [got EXCEPT ![r] = Append(@, line)]
  /\ transcript' = IF oc = "logfail" THEN transcript
                   ELSE LogAppend(transcript \o logBuf, LogEntry(r, line))
  /\ logBuf' = IF oc # "logfail" THEN <<>>
               ELSE IF logState = "open" THEN Append(logBuf, LogEntry(r, line))
               ELSE logBuf
  /\ stdDirty' = (stdDirty \/ oc = "fwdfail")
  /\ fwd' = IF oc = "ok" THEN Forward(r, fwd, line) ELSE fwd
  /\ rpc' = [rpc EXCEPT ![r] = IF oc = "ok"
                                THEN (IF r = "in" THEN "drain" ELSE "read")
                                ELSE "done"]
  /\ stdinLost' = (stdinLost \/ (r = "in" /\ oc = "ok" /\ childState # "running"))
  /\ stdinCloses' = IF r = "in" /\ oc = "logfail"
                    THEN CloseStdin(stdinCloses) ELSE stdinCloses
  /\ IF oc = "interrupt"
     THEN SigExit(rpc')
     ELSE /\ diag' = IF oc = "ok" THEN diag ELSE DiagInfo(diag, "error")
          /\ UNCHANGED << signalled, mainPc, outcome, pendingCode, cancelReq >>

\* mutant: the stdout and stderr relays handle a line only while no read of
\* the parent's stdin is pending
RelayLine_gated(r) ==
  /\ r \in {"out", "err"}
  /\ rpc[r] = "read" /\ ~cancelReq[r]
  /\ rd # "blocked"
  /\ pipe[r] # <<>>
  /\ pipe' = [pipe EXCEPT ![r] = Tail(@)]
  /\ \E oc \in Outcomes : HandleLine(r, Head(pipe[r]), oc)
  /\ UNCHANGED << exitCode, retval, loggerSet, logState, logCloses,
                  spawnAttempts, childState, childStatus, returncode,
                  consumed, rd, rdLine, fmtVars >>

\* mutant: a line is handled although the task was cancelled
RelayLine_late(r) ==
  /\ r \in {"out", "err"}
  /\ rpc[r] = "read"
  /\ pipe[r] # <<>>
  /\ pipe' = [pipe EXCEPT ![r] = Tail(@)]
  /\ \E oc \in Outcomes : HandleLine(r, Head(pipe[r]), oc)
  /\ UNCHANGED << exitCode, retval, loggerSet, logState, logCloses,
                  spawnAttempts, childState, childStatus, returncode,
                  consumed, rd, rdLine, fmtVars >>

\* handle_stdout / handle_stderr: readline() returns a line
RelayLine(r) ==
  /\ r \in {"out", "err"}
  /\ rpc[r] = "read" /\ ~cancelReq[r]
  /\ pipe[r] # <<>>
  /\ pipe' = [pipe EXCEPT ![r] = Tail(@)]
  /\ \E oc \in Outcomes : HandleLine(r, Head(pipe[r]), oc)
  /\ UNCHANGED << exitCode, retval, loggerSet, logState, logCloses,
                  spawnAttempts, childState, childStatus, returncode,
                  consumed, rd, rdLine, fmtVars >>

\* handle_stdout / handle_stderr: readline() returns b'' -> break
RelayEof(r) ==
  /\ r \in {"out", "err"}
  /\ rpc[r] = "read" /\ ~cancelReq[r]
  /\ pipe[r] = <<>> /\ childState = "exited"
  /\ rpc' = [rpc EXCEPT ![r] = "done"]
  /\ UNCHANGED << mainPc, outcome, pendingCode, exitCode, retval,
                  loggerSet, diag, logState, logCloses, transcript,
                  spawnAttempts, childState, childStatus, returncode,
                  stdinCloses, stdinLost, pipe, consumed, rd, rdLine,
                  cancelReq, got, fwd, signalled, logBuf,
                  stdDirty, fmtVars >>

\* handle_stdin: the executor future delivers a line
StdinLine ==
  /\ rpc["in"] = "read" /\ ~cancelReq["in"]
  /\ rd = "done" /\ rdLine # EOF
  /\ rd' = "none"
  /\ \E oc \in Outcomes : HandleLine("in", rdLine, oc)
  /\ UNCHANGED << exitCode, retval, loggerSet, logState, logCloses,
                  spawnAttempts, childState, childStatus, returncode, pipe,
                  consumed, rdLine, fmtVars >>

\* mutant: the loop breaks on b'' and the child's stdin is left open
StdinEof_noclose ==
  /\ rpc["in"] = "read" /\ ~cancelReq["in"]
  /\ rd = "done" /\ rdLine = EOF
  /\ rd' = "none"
  /\ rpc' = [rpc EXCEPT !["in"] = "done"]
  /\ UNCHANGED << mainPc, outcome, pendingCode, exitCode, retval,
                  loggerSet, diag, logState, logCloses, transcript,
                  spawnAttempts, childState, childStatus, returncode,
                  stdinCloses, stdinLost, pipe, consumed, rdLine, cancelReq,
                  got, fwd, signalled, logBuf, stdDirty, fmtVars >>

\* handle_stdin: the executor future delivers b'' -> break, close stdin
StdinEof ==
  /\ rpc["in"] = "read" /\ ~cancelReq["in"]
  /\ rd = "done" /\ rdLine = EOF
  /\ rd' = "none"
  /\ rpc' = [rpc EXCEPT !["in"] = "done"]
  /\ stdinCloses' = CloseStdin(stdinCloses)
  /\ UNCHANGED << mainPc, outcome, pendingCode, exitCode, retval,
                  loggerSet, diag, logState, logCloses, transcript,
                  spawnAttempts, childState, childStatus, returncode,
                  stdinLost, pipe, consumed, rdLine, cancelReq, got, fwd,
                  signalled, logBuf,
                  stdDirty, fmtVars >>

\* await self.process.stdin.drain() returns; the loop submits the next
\* readline to the executor
DrainOk ==
  /\ rpc["in"] = "drain" /\ ~cancelReq["in"]
  /\ ~stdinLost
  /\ rpc' = [rpc EXCEPT !["in"] = "read"]
  /\ rd' = "blocked"
  /\ UNCHANGED << mainPc, outcome, pendingCode, exitCode, retval,
                  loggerSet, diag, logState, logCloses, transcript,
                  spawnAttempts, childState, childStatus, returncode,
                  stdinCloses, stdinLost, pipe, consumed, rdLine,
                  cancelReq, got, fwd, signalled, logBuf,
                  stdDirty, fmtVars >>

\* drain() raises ConnectionResetError -> logger.error, break
DrainFail ==
  /\ rpc["in"] = "drain" /\ ~cancelReq["in"]
  /\ stdinLost
  /\ rpc' = [rpc EXCEPT !["in"] = "done"]
  /\ diag' = DiagInfo(diag, "error")
  /\ stdinCloses' = CloseStdin(stdinCloses)
  /\ UNCHANGED << mainPc, outcome, pendingCode, exitCode, retval,
                  loggerSet, logState, logCloses, transcript,
                  spawnAttempts, childState, childStatus, returncode,
                  stdinLost, pipe, consumed, rd, rdLine, cancelReq, got,
                  fwd, signalled, logBuf,
                  stdDirty, fmtVars >>

\* ------------------------------------------- executor thread (readline)
\* sys.stdin.buffer.readline, running in the executor's thread, returns the
\* next line of the parent's stdin.  It returns only when the parent's
\* stdin delivers one; the thread runs on whatever became of the task.
ThreadRead ==
  /\ rd = "blocked"
  /\ SessionLines < MaxLines
  /\ rd' = "done" /\ rdLine' = LineAt(Len(consumed) + 1)
  /\ consumed' = Append(consumed, LineAt(Len(consumed) + 1))
  /\ UNCHANGED << mainPc, outcome, pendingCode, exitCode, retval,
                  loggerSet, diag, logState, logCloses, transcript,
                  spawnAttempts, childState, childStatus, returncode,
                  stdinCloses, stdinLost, pipe, rpc, cancelReq, got, fwd,
                  signalled, logBuf,
                  stdDirty, fmtVars >>

\* ... or b'' when the parent's stdin is closed
ThreadEof ==
  /\ rd = "blocked"
  /\ rd' = "done" /\ rdLine' = EOF
  /\ UNCHANGED << mainPc, outcome, pendingCode, exitCode, retval,
                  loggerSet, diag, logState, logCloses, transcript,
                  spawnAttempts, childState, childStatus, returncode,
                  stdinCloses, stdinLost, pipe, consumed, rpc, cancelReq,
                  got, fwd, signalled, logBuf,
                  stdDirty, fmtVars >>

\* --------------------------------------------------------- the child
\* The child is followed while start() is: what it does after start() was
\* left has no effect on the capture process.
Followed == mainPc \in {"spawning", "waiting"}

\* the child writes a line to its stdout or its stderr
ChildWrite(r) ==
  /\ r \in {"out", "err"}
  /\ Followed /\ childState = "running"
  /\ SessionLines < MaxLines
  /\ pipe' = [pipe EXCEPT ![r] = Append(@, LineAt(Len(Produced(r)) + 1))]
  /\ UNCHANGED << mainPc, outcome, pendingCode, exitCode, retval,
                  loggerSet, diag, logState, logCloses, transcript,
                  spawnAttempts, childState, childStatus, returncode,
                  stdinCloses, stdinLost, consumed, rd, rdLine, rpc,
                  cancelReq, got, fwd, signalled, logBuf,
                  stdDirty, fmtVars >>

ChildExit(st) ==
  /\ Followed /\ childState = "running"
  /\ childState' = "exited" /\ childStatus' = st
  /\ UNCHANGED << mainPc, outcome, pendingCode, exitCode, retval,
                  loggerSet, diag, logState, logCloses, transcript,
                  spawnAttempts, returncode, stdinCloses, stdinLost, pipe,
                  consumed, rd, rdLine, rpc, cancelReq, got, fwd, signalled, logBuf,
                  stdDirty, fmtVars >>

\* the event loop runs the child watcher's callback and sees the hang-up of
\* the child's pipes
ExitObserved ==
  /\ Followed /\ childState = "exited" /\ returncode = None
  /\ returncode' = childStatus
  /\ stdinLost' = TRUE
  /\ UNCHANGED << mainPc, outcome, pendingCode, exitCode, retval,
                  loggerSet, diag, logState, logCloses, transcript,
                  spawnAttempts, childState, childStatus, stdinCloses,
                  pipe, consumed, rd, rdLine, rpc, cancelReq, got, fwd,
                  signalled, logBuf,
                  stdDirty, fmtVars >>

CapNext ==
  \/ Construct \/ OpenLog \/ SpawnOk \/ SpawnFail \/ Launch \/ WaitReturn
  \/ Finish \/ Signal
  \/ \E r \in Relays : RelayStart(r) \/ RelayCancelled(r)
  \/ \E r \in {"out", "err"} : RelayLine(r) \/ RelayEof(r) \/ ChildWrite(r)
  \/ StdinLine \/ StdinEof \/ DrainOk \/ DrainFail
  \/ ThreadRead \/ ThreadEof
  \/ \E st \in ChildStatuses : ChildExit(st)
  \/ ExitObserved

Next == CapNext

Spec == Init /\ [][Next]_vars


\* ======================================================================
\* json-log-formatter.py
\*
\* A line of a log file is [pre, txt, nl]: pre says whether the line starts
\* with a "[timestamp] TAG: " prefix and with which TAG ("none": it does
\* not), txt is the rest of the line as tokens, nl whether a newline ends
\* it.  Tokens: the JSON punctuation, "k" for an object key with its colon
\* ("a":), "1" for the digit 1, " " for one blank.
\* ======================================================================
Tokens == {"[", "]", "{", "}", "k", ",", "1", " "}
Prefixes == {"IN", "OUT", "ERR", "none"}
MaxTxt == 4   \* tokens typed into the input line at most

\* mutant: the prefix group of the pattern is optional
Matches_any(l) == Len(l.txt) >= 1

\* pattern = r'(\[\d{4}-...\] (?:IN|OUT): )(.+)' ; re.match(pattern, line)
Matches(l) == l.pre \in {"IN", "OUT"} /\ Len(l.txt) >= 1

\* ---- json.loads
ParseFail == [ok |-> FALSE, val |-> [t |-> "none"], next |-> 0]
ParseOk(v, n) == [ok |-> TRUE, val |-> v, next |-> n]

RECURSIVE SkipWs(_, _)
SkipWs(t, i) == IF i <= Len(t) /\ t[i] = " " THEN SkipWs(t, i + 1) ELSE i

\* the end of the run of digits that starts at i
RECURSIVE SkipDigits(_, _)
SkipDigits(t, i) == IF i <= Len(t) /\ t[i] = "1" THEN SkipDigits(t, i + 1) ELSE i

\* dict[key] = value: a repeated key keeps its place and takes the new value
DictSet(m, key, v) ==
  IF \E i \in 1..Len(m) : m[i].k = key
  THEN [i \in 1..Len(m) |-> IF m[i].k = key THEN [k |-> key, v |-> v] ELSE m[i]]
  ELSE Append(m, [k |-> key, v |-> v])

RECURSIVE ParseValue(_, _), ParseElems(_, _, _), ParseMembers(_, _, _)
ParseValue(t, i) ==
  LET j == SkipWs(t, i) IN
  IF j > Len(t) THEN ParseFail
  ELSE IF t[j] = "1"
       THEN ParseOk([t |-> "num", d |-> SkipDigits(t, j) - j], SkipDigits(t, j))
  ELSE IF t[j] = "[" THEN
    (LET k == SkipWs(t, j + 1) IN
     IF k <= Len(t) /\ t[k] = "]" THEN ParseOk([t |-> "arr", e |-> <<>>], k + 1)
     ELSE ParseElems(t, k, <<>>))
  ELSE IF t[j] = "{" THEN
    (LET k == SkipWs(t, j + 1) IN
     IF k <= Len(t) /\ t[k] = "}" THEN ParseOk([t |-> "obj", m |-> <<>>], k + 1)
     ELSE ParseMembers(t, k, <<>>))
  ELSE ParseFail

\* the elements of an array, from the first token of an element on
ParseElems(t, i, acc) ==
  LET r == ParseValue(t, i) IN
  IF ~r.ok THEN ParseFail
  ELSE LET k == SkipWs(t, r.next) IN
       IF k > Len(t) THEN ParseFail
       ELSE IF t[k] = "," THEN ParseElems(t, k + 1, Append(acc, r.val))
       ELSE IF t[k] = "]"
            THEN ParseOk([t |-> "arr", e |-> Append(acc, r.val)], k + 1)
       ELSE ParseFail

\* the members of an object, from the key of a member on
ParseMembers(t, i, acc) ==
  IF i > Len(t) \/ t[i] # "k" THEN ParseFail
  ELSE LET r == ParseValue(t, i + 1) IN
       IF ~r.ok THEN ParseFail
       ELSE LET k == SkipWs(t, r.next) IN
            IF k > Len(t) THEN ParseFail
            ELSE IF t[k] = ","
                 THEN ParseMembers(t, SkipWs(t, k + 1), DictSet(acc, "k", r.val))
            ELSE IF t[k] = "}"
                 THEN ParseOk([t |-> "obj", m |-> DictSet(acc, "k", r.val)], k + 1)
            ELSE ParseFail

\* json.loads(json_part): one value, blanks allowed around it, nothing else
Loads(t) ==
  LET r == ParseValue(t, 1) IN
  IF r.ok /\ SkipWs(t, r.next) = Len(t) + 1 THEN r ELSE ParseFail

\* ---- json.dumps(obj, indent=2): the lines of the rendering; the first
\* line starts where the value starts, the others carry their indentation
Indent(n) == [i \in 1..(2 * n) |-> " "]

RECURSIVE Dumps(_, _), DumpItems(_, _, _)
Dumps(v, lvl) ==
  IF v.t = "num" THEN << [i \in 1..v.d |-> "1"] >>
  ELSE IF v.t = "arr" THEN
    (IF v.e = <<>> THEN << <<"[", "]">> >>
     ELSE << <<"[">> >> \o DumpItems(v, lvl, 1) \o << Indent(lvl) \o <<"]">> >>)
  ELSE
    (IF v.m = <<>> THEN << <<"{", "}">> >>
     ELSE << <<"{">> >> \o DumpItems(v, lvl, 1) \o << Indent(lvl) \o <<"}">> >>)

\* the lines of items i.. of the array or object v, which sits at level lvl
DumpItems(v, lvl, i) ==
  LET n    == IF v.t = "arr" THEN Len(v.e) ELSE Len(v.m)
      item == IF v.t = "arr" THEN v.e[i] ELSE v.m[i].v
      key  == IF v.t = "arr" THEN <<>> ELSE <<v.m[i].k, " ">>
      ls   == Dumps(item, lvl + 1)
      frst == << Indent(lvl + 1) \o key \o ls[1] >> \o Tail(ls)
      sep  == [frst EXCEPT ![Len(frst)] = IF i < n THEN Append(@, ",") ELSE @]
  IN IF i > n THEN <<>> ELSE sep \o DumpItems(v, lvl, i + 1)

\* lines 35-39: indented_json = formatted_json.replace('\n', '\n  ');
\* formatted_line = f"{prefix}{indented_json}\n", as the lines it makes
PrettyLines(pre, v) ==
  LET ls == Dumps(v, 0) IN
  [i \in 1..Len(ls) |->
     IF i = 1 THEN [pre |-> pre, txt |-> ls[1], nl |-> TRUE]
     ELSE [pre |-> "none", txt |-> <<" ", " ">> \o ls[i], nl |-> TRUE]]

\* lines 26-45: one input line
FormatLine(l) ==
  IF Matches(l)
  THEN LET r == Loads(l.txt) IN
       IF r.ok THEN PrettyLines(l.pre, r.val) ELSE <<l>>
  ELSE <<l>>

\* format_json_logs: the lines of the output file for the lines of the
\* input file
RECURSIVE FormatLogs(_)
FormatLogs(ls) ==
  IF ls = <<>> THEN <<>> ELSE FormatLine(Head(ls)) \o FormatLogs(Tail(ls))

\* ---- the reformatter's runs
\* A sample record that may precede the typed line in the input file.
SampleLine == [pre |-> "IN", txt |-> <<"{", "k", "1", "}">>, nl |-> TRUE]

FmtInit ==
  /\ CapInit
  /\ fmtPc = "edit" /\ fmtOut = <<>>
  /\ \E p \in Prefixes : fmtIn = << [pre |-> p, txt |-> <<>>, nl |-> TRUE] >>

Last(q) == q[Len(q)]

\* the input file gets one more token on its last line
FmtType(t) ==
  /\ fmtPc = "edit"
  /\ Len(Last(fmtIn).txt) < MaxTxt
  /\ fmtIn' = [fmtIn EXCEPT ![Len(fmtIn)].txt = Append(@, t)]
  /\ UNCHANGED << fmtOut, fmtPc, capVars >>

\* the input file's last line does not end in a newline
FmtChop ==
  /\ fmtPc = "edit" /\ Last(fmtIn).nl
  /\ fmtIn' = [fmtIn EXCEPT ![Len(fmtIn)].nl = FALSE]
  /\ UNCHANGED << fmtOut, fmtPc, capVars >>

\* the input file starts with the sample record
FmtLead ==
  /\ fmtPc = "edit" /\ Len(fmtIn) = 1
  /\ fmtIn' = <<SampleLine>> \o fmtIn
  /\ UNCHANGED << fmtOut, fmtPc, capVars >>

\* format_json_logs(input_file, output_file)
FmtRun ==
  /\ fmtPc = "edit"
  /\ fmtOut' = FormatLogs(fmtIn)
  /\ fmtPc' = "once"
  /\ UNCHANGED << fmtIn, capVars >>

\* format_json_logs on the output file of the first run
FmtRerun ==
  /\ fmtPc = "once"
  /\ fmtIn' = fmtOut
  /\ fmtOut' = FormatLogs(fmtOut)
  /\ fmtPc' = "twice"
  /\ UNCHANGED capVars

FmtNext ==
  \/ \E t \in Tokens : FmtType(t)
  \/ FmtChop \/ FmtLead \/ FmtRun \/ FmtRerun

FmtSpec == FmtInit /\ [][FmtNext]_vars

\* The event loop runs every callback that is ready and the interpreter
\* goes on when it can.  Nothing is assumed of the environment: the child
\* (ChildWrite, ChildExit), the parent's stdin (ThreadRead, ThreadEof) and
\* signal delivery (Signal) may or may not act.
Scheduled ==
  \/ Construct \/ OpenLog \/ SpawnOk \/ SpawnFail \/ Launch \/ WaitReturn
  \/ Finish \/ ExitObserved
  \/ \E r \in Relays : RelayStart(r) \/ RelayCancelled(r)
  \/ \E r \in {"out", "err"} : RelayLine(r) \/ RelayEof(r)
  \/ StdinLine \/ StdinEof \/ DrainOk \/ DrainFail

FairSpec == Spec /\ WF_vars(Scheduled)

\* ------------------------------------------------------------ claims
Range(f) == {f[i] : i \in DOMAIN f}
TagOf == [in |-> "IN", out |-> "OUT", err |-> "ERR"]
\* the record the transcript should hold for a line of relay r
RecordFor(r, line) == [tag |-> TagOf[r], text |-> rstrip(Decode(line))]
Exited == mainPc = "exited"

\* C1: when start() has returned, the value it returned is the status the
\* child exited with, and a process that ends through that return exits
\* with that status, whatever the relays did.
C1_ExitStatus ==
  /\ retval # None => (childState = "exited" /\ retval = childStatus)
  /\ (Exited /\ outcome = "returned") => exitCode = childStatus

C1_Witness ==
  /\ Exited /\ outcome = "returned" /\ exitCode = 3 /\ childStatus = 3
  /\ "error" \in diag /\ \E r \in Relays : cancelReq[r]

\* C2 (as claimed): when the session has ended by start() returning, with
\* no I/O error in any relay, every line the child wrote to its stdout and
\* stderr has been forwarded, in order.
C2_AllOutputForwarded ==
  (Exited /\ outcome = "returned" /\ "error" \notin diag)
    => (fwd["out"] = Produced("out") /\ fwd["err"] = Produced("err"))

\* C3 (as claimed): once the stdin relay and its reader are at rest, the
\* lines forwarded to the child are exactly the lines consumed from the
\* parent's input (no relay reported an I/O error, no signal came).
C3_ForwardedEqualsConsumed ==
  (rpc["in"] = "done" /\ rd # "blocked" /\ "error" \notin diag
     /\ ~signalled)
    => fwd["in"] = consumed

\* C4: the lines relay r has forwarded are matched one to one, in order, by
\* the first records of the transcript that carry r's tag (IN for stdin,
\* OUT for stdout, ERR for stderr); r has at most one more record, for the
\* line it has logged and not forwarded.
C4_OneRecordPerForwardedLine ==
  \A r \in Relays :
    LET tagged == SelectSeq(transcript, LAMBDA e : e.tag = TagOf[r]) IN
    /\ Len(fwd[r]) <= Len(tagged)
    /\ Len(tagged) <= Len(fwd[r]) + 1
    /\ \A i \in 1..Len(fwd[r]) : tagged[i] = RecordFor(r, fwd[r][i])
    /\ \A k \in 1..Len(transcript) : transcript[k].tag \in Range(TagOf)

C4_Witness ==
  \/ /\ Len(fwd["in"]) = 1 /\ Len(fwd["out"]) = 1 /\ Len(fwd["err"]) = 1
     /\ Len(transcript) = 3
  \/ /\ Len(fwd["out"]) = 2 /\ Len(fwd["err"]) = 1 /\ Len(transcript) = 3

\* C5 (as claimed): a session that opened the log sink has closed it
\* exactly once when the process ends, on every path.
C5_SinkClosedOnce ==
  (Exited /\ logState # "unopened") => (logCloses = 1 /\ logState = "closed")

\* C6: the records of the transcript that carry relay r's tag are, in order,
\* the records of the lines r obtained from its source.
C6_PerRelayOrder ==
  \A r \in Relays :
    LET tagged == SelectSeq(transcript, LAMBDA e : e.tag = TagOf[r]) IN
    /\ Len(tagged) <= Len(got[r])
    /\ \A i \in 1..Len(tagged) : tagged[i] = RecordFor(r, got[r][i])

C6_Witness ==
  /\ Len(transcript) = 3
  /\ transcript[1].tag = "OUT" /\ transcript[2].tag = "IN"
  /\ transcript[3].tag = "OUT" /\ transcript[3].text # transcript[1].text

\* C7: when create_subprocess_exec raised, it was called once, start() has
\* been left with the exception and returned nothing, no relay task exists,
\* the transcript is empty, and the process does not exit with status 0.
SpawnFailed == spawnAttempts > 0 /\ childState = "none"

C7_SpawnFailure ==
  SpawnFailed =>
    /\ spawnAttempts = 1
    /\ mainPc \in {"cleanup", "exited"} /\ outcome \in {"spawnfail", "signal"}
    /\ retval = None
    /\ \A r \in Relays : rpc[r] = "none"
    /\ transcript = <<>>
    /\ Exited => exitCode = 1

C7_Witness == SpawnFailed /\ Exited /\ outcome = "spawnfail"

\* C8 (as claimed): after a signal was delivered, the diagnostic log gets an
\* entry for it and the process terminates with exit code 1.
C8_SignalExit ==
  (signalled) ~> (Exited /\ exitCode = 1 /\ "signal" \in diag)

\* C9 (as claimed): once the child has exited, the session finishes: the
\* log sink is closed and the process exits with the child's status (unless
\* a signal ends it first or a relay has reported an I/O error).
C9_SessionEnds ==
  (childState = "exited")
    ~> ((Exited /\ exitCode = childStatus /\ logState = "closed")
        \/ signalled \/ "error" \in diag)

\* C10: the reformatter's output for its own output is that output.
C10_Idempotent == fmtPc = "twice" => fmtOut = fmtIn

C10_Witness ==
  /\ fmtPc = "twice" /\ fmtOut = fmtIn
  /\ Len(fmtOut) >= 4
  /\ \E i \in 1..(Len(fmtOut) - 2) :
       /\ fmtOut[i].pre = "OUT" /\ fmtOut[i].txt = <<"{">>
       /\ fmtOut[i + 1].txt = <<" ", " ", " ", " ", "k", " ", "1">>
       /\ fmtOut[i + 2].txt = <<" ", " ", "}">>

\* what the claim expects of one line: every record line, whatever its tag,
\* whose content is JSON is rewritten
ClaimedFormatLine(l) ==
  IF l.pre \in {"IN", "OUT", "ERR"} /\ Len(l.txt) >= 1 /\ Loads(l.txt).ok
  THEN PrettyLines(l.pre, Loads(l.txt).val)
  ELSE <<l>>

RECURSIVE ClaimedFormatLogs(_)
ClaimedFormatLogs(ls) ==
  IF ls = <<>> THEN <<>>
  ELSE ClaimedFormatLine(Head(ls)) \o ClaimedFormatLogs(Tail(ls))

\* C11 (as claimed): the output file holds, for every line of the input file
\* that is a record with tag IN, OUT or ERR and JSON content, the prefix
\* followed by the pretty-printed JSON, and every other line unchanged.
C11_RewritesEveryTag == fmtPc = "once" => fmtOut = ClaimedFormatLogs(fmtIn)

\* relay r takes the end of its stream in this step: it was reading, was not
\* cancelled, its source has delivered b'', and it is done afterwards
EofStep(r) ==
  /\ rpc[r] = "read" /\ ~cancelReq[r] /\ rpc'[r] = "done"
  /\ IF r = "in" THEN rd = "done" /\ rdLine = EOF ELSE pipe[r] = <<>>

\* C12: a step in which a relay reads end-of-stream ends that relay and
\* leaves the other two where they were (not ended, not cancelled); the
\* stdin relay's step leaves the child's stdin closed, the stdout and stderr
\* relays' steps close nothing; no record is appended and no line forwarded.
C12_EofStopsOnlyThatRelay ==
  [][\A r \in Relays :
       EofStep(r) =>
         /\ \A q \in Relays \ {r} :
              rpc'[q] = rpc[q] /\ cancelReq'[q] = cancelReq[q]
         /\ r = "in" => (stdinCloses' = 1 \/ stdinLost')
         /\ r # "in" => (stdinCloses' = stdinCloses /\ stdinLost' = stdinLost)
         /\ logState' = logState /\ logCloses' = logCloses
         /\ transcript' = transcript /\ fwd' = fwd
         /\ mainPc' = mainPc]_vars

\* the stdin relay and the stdout relay have both ended on end-of-stream,
\* the child's stdin was closed by the relay, the stderr relay still reads
C12_Witness ==
  /\ rpc["in"] = "done" /\ ~cancelReq["in"] /\ rd = "none" /\ rdLine = EOF
  /\ stdinCloses = 1 /\ ~stdinLost
  /\ rpc["out"] = "done" /\ ~cancelReq["out"] /\ "error" \notin diag
  /\ ~signalled
  /\ rpc["err"] = "read"

\* the whole records: tag and text of one line of one relay
WholeRecords ==
  {RecordFor(r, Lines[j]) : r \in Relays, j \in 1..Len(Lines)}

\* the records of the transcript that carry relay r's tag
Tagged(log, r) == SelectSeq(log, LAMBDA e : e.tag = TagOf[r])

\* C13: from the state in which a relay is cancelled on, every step leaves
\* the lines it obtained, its records and the lines it forwarded as they
\* are, and submits no read of the parent's stdin for it; and in every state
\* a relay has no more records, written or waiting in the file's buffer,
\* than lines obtained (none logged twice), each the whole record of its
\* line.
C13_NothingAfterCancel ==
  /\ [][\A r \in Relays :
          cancelReq[r] =>
            /\ got'[r] = got[r] /\ fwd'[r] = fwd[r]
            /\ Tagged(transcript', r) = Tagged(transcript, r)
            /\ Tagged(logBuf', r) = Tagged(logBuf, r)
            /\ r = "in" => (rd' = "blocked" => rd = "blocked")]_vars
  /\ [](/\ \A r \in Relays :
            Len(Tagged(transcript, r)) + Len(Tagged(logBuf, r)) <= Len(got[r])
        /\ \A i \in 1..Len(transcript) : transcript[i] \in WholeRecords)

\* the stdout relay was cancelled with a line of the child unread, after it
\* had relayed one; the stdin relay was cancelled with a read in flight
\* that has delivered a line since
C13_Witness ==
  /\ cancelReq["out"] /\ rpc["out"] = "done"
  /\ Len(got["out"]) = 1 /\ Len(pipe["out"]) = 1
  /\ cancelReq["in"] /\ rpc["in"] = "done"
  /\ rd = "done" /\ rdLine # EOF /\ Len(consumed) > Len(got["in"])

\* C14 (as claimed): when a relay has reported an I/O error, the error is in
\* the diagnostic log only, the supervisor still waits while the child's
\* exit is not known, and the process, once the child has exited and no
\* signal came, exits with the child's status.
C14_ErrorIsLocal ==
  ("error" \in diag /\ ~signalled) =>
    /\ \A i \in 1..Len(transcript) : transcript[i].tag \in Range(TagOf)
    /\ returncode = None => mainPc = "waiting"
    /\ Exited => exitCode = childStatus

\* C15: in every state of a session no signal has ended,
\*   the child was spawned only if the log sink was opened before,
\*   a relay task exists only if the spawn succeeded,
\*   a relay was cancelled only if the child's exit is known,
\*   the log sink is closed only if every relay has ended or was cancelled,
\*   start() has returned only if the log sink is closed.
C15_SupervisorOrder ==
  ~signalled =>
    /\ spawnAttempts > 0 => logState # "unopened"
    /\ \A r \in Relays : rpc[r] # "none" => childState # "none"
    /\ \A r \in Relays : cancelReq[r] => (childState = "exited" /\ returncode # None)
    /\ logState = "closed" => \A r \in Relays : cancelReq[r] \/ rpc[r] = "done"
    /\ retval # None => (logState = "closed" /\ logCloses = 1)

\* start() has returned the child's status with the sink closed and a relay
\* cancelled that was still relaying
C15_Witness ==
  /\ ~signalled /\ retval = 3 /\ logState = "closed"
  /\ \E r \in Relays : cancelReq[r] /\ Len(got[r]) >= 1
  /\ \E r \in Relays : rpc[r] = "done" /\ ~cancelReq[r]

\* C16: while the log sink was never opened there is no child, no spawn was
\* tried, no relay task exists and nothing was forwarded or recorded; and
\* when open() has failed, start() was left with the error, returned nothing
\* and the process exits with status 1.
C16_OpenFailureIsFatal ==
  /\ logState = "unopened" =>
       /\ spawnAttempts = 0 /\ childState = "none"
       /\ \A r \in Relays : rpc[r] = "none" /\ fwd[r] = <<>> /\ got[r] = <<>>
       /\ transcript = <<>>
       /\ mainPc \notin {"opened", "spawning", "waiting"}
  /\ outcome = "openfail" =>
       /\ logState = "unopened" /\ mainPc \in {"cleanup", "exited"}
       /\ retval = None
       /\ Exited => exitCode = 1

C16_Witness == Exited /\ outcome = "openfail" /\ exitCode = 1

\* C17: every step leaves the records the transcript holds as they are and
\* in place, and what it adds after them are whole records, each of one
\* relay's line: no step writes into or between the records of another.
C17_WholeRecords ==
  [][/\ Len(transcript') >= Len(transcript)
     /\ SubSeq(transcript', 1, Len(transcript)) = transcript
     /\ \A i \in (Len(transcript) + 1)..Len(transcript') :
          transcript'[i] \in WholeRecords]_vars

\* the three relays have each a record in the transcript, the middle one
\* next to a record of another relay on both sides
C17_Witness ==
  /\ Len(transcript) = 3
  /\ {transcript[i].tag : i \in 1..3} = {"IN", "OUT", "ERR"}

\* the session is going on undisturbed: the child runs, no signal came and
\* no relay reported an I/O error
Undisturbed == childState = "running" /\ ~signalled /\ "error" \notin diag

\* the lines that have reached relay r's source so far
Source(r) == IF r = "in" THEN consumed ELSE Produced(r)

\* relay r is behind: its source holds a line it has not logged and forwarded
Behind(r) ==
  Len(fwd[r]) < Len(Source(r)) \/ Len(Tagged(transcript, r)) < Len(Source(r))

\* C18: while the session goes on undisturbed, the relays that are behind (a
\* line the child wrote to its stdout or stderr, or a line consumed from the
\* parent's stdin, is not yet logged and forwarded) catch up, whatever the
\* other relays are waiting for: no relay stays behind for good.
C18_NoRelayBlocksAnother ==
  (Undisturbed /\ \E r \in Relays : Behind(r))
    ~> (~Undisturbed \/ \A r \in Relays : ~Behind(r))

\* a line of the child was relayed while the stdin relay waits for a read
\* that has delivered nothing, and a line of the parent's stdin was relayed
\* while the stderr relay waits for a line of the child
C18_Witness ==
  /\ Undisturbed
  /\ Len(fwd["out"]) >= 1 /\ rd = "blocked"
  /\ Len(fwd["in"]) >= 1 /\ rpc["err"] = "read" /\ Produced("err") = <<>>

\* C19: in every state the lines relay r has forwarded are the first of the
\* lines it obtained, every one of them has its record, and r has at most
\* one record more than forwarded lines.
C19_LoggedBeforeForwarded ==
  \A r \in Relays :
    LET logged == Len(Tagged(transcript, r)) + Len(Tagged(logBuf, r)) IN
    /\ Len(fwd[r]) <= Len(got[r])
    /\ fwd[r] = SubSeq(got[r], 1, Len(fwd[r]))
    /\ Len(fwd[r]) <= Len(Tagged(transcript, r))
    /\ logged <= Len(fwd[r]) + 1

\* a relay has stopped between the append and the forward of its second
\* line: two records, one line forwarded
C19_Witness ==
  \E r \in Relays :
    /\ Len(Tagged(transcript, r)) = 2 /\ Len(fwd[r]) = 1
    /\ rpc[r] = "done"

====
